---------------------------- MODULE Spec2Model ----------------------------
(***************************************************************************)
(* A model of effdet/bench.py: batch collation (my_fast_collate), the      *)
(* top-k selector (_post_process), the per-image detection assembly        *)
(* (_batch_detection), the output formatter (conv_predictions), the three  *)
(* benches (DetBenchPredict, DetBenchTrainOrig, DetBenchTrain) and         *)
(* unwrap_bench.                                                           *)
(*                                                                         *)
(* Every function of the module is stateless apart from nn.Module's        *)
(* `training` flag, so the state is that flag plus the call in progress:   *)
(* `pc` names the function that was called ("idle" between calls), `args`  *)
(* holds its arguments and `ret` what it returned or raised.               *)
(*                                                                         *)
(* Units: scores and logits are counted in tenths (1 is 0.1), image scale  *)
(* factors in tenths as well (10 is 1.0).  Tensors are sequences, indexed  *)
(* from 1; a tensor whose rank matters carries it as `dim`.                *)
(***************************************************************************)
EXTENDS Integers, Sequences, FiniteSets, TLC

VARIABLES training, pc, args, ret

vars == <<training, pc, args, ret>>

----------------------------------------------------------------------------
(* Bounds of the model and program constants.                              *)

\* largest batch size tried
MaxBatch == 2

\* instance counts tried lie within MaxExtra of 0 and of MAX_NUM_INSTANCES
MaxExtra == 1

\* rows per image of the detection tensors handed to conv_predictions
MaxRows == 3

\* deepest wrapper nesting handed to unwrap_bench
MaxDepth == 4

\* anchors.MAX_DETECTION_POINTS (5000 in the repository), scaled down
MAX_DETECTION_POINTS == 2

\* bench.py: MAX_NUM_INSTANCES = 75
MAX_NUM_INSTANCES == 75

\* bench.py: if score < .1, in tenths
SCORE_THRESHOLD == 1

\* bench.py: != 1.0 in the two assertions, in tenths
SCALE_ONE == 10

\* bench.py: the image size 512 the no-target paths pass to _batch_detection
DEFAULT_SIZE == 512

Min(a, b) == IF a <= b THEN a ELSE b

\* an optional argument: None, or a value
None == [none |-> TRUE]

Some(v) == [none |-> FALSE, value |-> v]

Raise(kind) == [status |-> kind]

Ok(v) == [status |-> "ok", value |-> v]

----------------------------------------------------------------------------
(* Batch collation: my_fast_collate.                                       *)

\* torch.zeros(target_shape): rows x (row of zeros)
Zeros(rows, zero) == [r \in 1..rows |-> zero]

\* an assignment that copies as many rows as fit and drops the others
SliceAssignTruncating(dst, tv) ==
    Ok([r \in 1..Len(dst) |-> IF r <= Len(tv) THEN tv[r] ELSE dst[r]])

\* an assignment that stops one row short: the last instance is left out
SliceAssignShort(dst, tv) ==
    IF Len(tv) <= Len(dst)
    THEN Ok([r \in 1..Len(dst) |-> IF r < Len(tv) THEN tv[r] ELSE dst[r]])
    ELSE Raise("RuntimeError")

\* dst[0:n] = tv for a destination of Len(dst) rows: the slice is clipped to
\* the destination, and the copy fails unless tv has exactly as many rows as
\* the clipped slice (a single row would broadcast, and then n = 1 fits).
SliceAssign(dst, tv) ==
    LET m == Min(Len(tv), Len(dst))
    IN  IF Len(tv) = m
        THEN Ok([r \in 1..Len(dst) |-> IF r <= m THEN tv[r] ELSE dst[r]])
        ELSE Raise("RuntimeError")

\* dtype inference of a scalar field from the first sample (line 107), and
\* torch.tensor(tv, dtype=...) (line 117): int64 truncates toward zero
ScalarDtype(v) == IF v.py = "float" THEN "float32" ELSE "int64"

ToDtype(dtype, v) ==
    IF dtype = "float32" THEN v.x ELSE (v.x \div SCALE_ONE) * SCALE_ONE

\* the first loop (lines 88-108): one zero tensor per key of targets[0]
CollateInit(targets) ==
    [boxes     |-> [i \in 1..Len(targets) |-> Zeros(MAX_NUM_INSTANCES, <<0, 0, 0, 0>>)],
     labels    |-> [i \in 1..Len(targets) |-> Zeros(MAX_NUM_INSTANCES, 0)],
     img_scale |-> [i \in 1..Len(targets) |-> 0],
     img_size  |-> [i \in 1..Len(targets) |-> <<0, 0>>]]

\* one iteration of the second loop (lines 110-117) for image i
CollateImage(acc, targets, i) ==
    IF acc.status # "ok" THEN acc
    ELSE LET t  == acc.value
             bx == SliceAssign(t.boxes[i], targets[i].boxes)
             lb == SliceAssign(t.labels[i], targets[i].labels)
         IN  IF bx.status # "ok" THEN Raise(bx.status)
             ELSE IF lb.status # "ok" THEN Raise(lb.status)
             ELSE Ok([boxes     |-> [t.boxes EXCEPT ![i] = bx.value],
                      labels    |-> [t.labels EXCEPT ![i] = lb.value],
                      img_scale |-> [t.img_scale EXCEPT ![i] =
                                       ToDtype(ScalarDtype(targets[1].img_scale),
                                               targets[i].img_scale)],
                      img_size  |-> [t.img_size EXCEPT ![i] = targets[i].img_size]])

RECURSIVE CollateLoop(_, _, _)
CollateLoop(acc, targets, i) ==
    IF i > Len(targets) THEN acc
    ELSE CollateLoop(CollateImage(acc, targets, i), targets, i + 1)

my_fast_collate(targets) == CollateLoop(Ok(CollateInit(targets)), targets, 1)

\* my_fast_collate_images: zeros of the stacked shape, plus each image
my_fast_collate_images(images_list) ==
    [i \in 1..Len(images_list) |-> 0 + images_list[i]]

----------------------------------------------------------------------------
(* Inputs of the collation.                                                *)

InstCounts ==
    {n \in 0..(MAX_NUM_INSTANCES + MaxExtra) :
        n <= MaxExtra \/ n >= MAX_NUM_INSTANCES - MaxExtra}

ScaleVals == {5, 10, 15}

\* instance j of image i: a value no other instance of the batch has
InstVal(i, j) == 100 * i + j

\* the target annotation of image i with n instances and scale s
Target(i, n, s) ==
    [boxes     |-> [j \in 1..n |-> <<InstVal(i, j), InstVal(i, j), i, j>>],
     labels    |-> [j \in 1..n |-> InstVal(i, j)],
     img_scale |-> [py |-> "float", x |-> s],
     img_size  |-> <<DEFAULT_SIZE, DEFAULT_SIZE>>]

Targets(ns, ss) == [i \in DOMAIN ns |-> Target(i, ns[i], ss[i])]

----------------------------------------------------------------------------
(* The output formatter: conv_predictions.                                 *)

\* lines 144-151: the rows of one image up to, not including, the first
\* row whose score is below the threshold
RECURSIVE CollectSegments(_, _)
CollectSegments(image_detection, j) ==
    IF j > Len(image_detection) THEN <<>>
    ELSE IF image_detection[j].score < SCORE_THRESHOLD THEN <<>>
    ELSE <<image_detection[j]>> \o CollectSegments(image_detection, j + 1)

\* torch.tensor(list): a rank-1 tensor (rank 2 for a non-empty list of boxes;
\* only rank 0 against rank >= 1 matters below, so boxes carry rank 1 too)
Tensor1(data) == [dim |-> 1, data |-> data]

\* torch.sub(t, 1)
SubOne(t) == [dim |-> t.dim, data |-> [k \in 1..Len(t.data) |-> t.data[k] - 1]]

\* the positions where mask holds, in order: (mask).nonzero()
RECURSIVE Nonzero(_, _)
Nonzero(mask, k) ==
    IF k > Len(mask) THEN <<>>
    ELSE (IF mask[k] THEN <<k>> ELSE <<>>) \o Nonzero(mask, k + 1)

\* .squeeze() of the (n, 1) result of nonzero(): rank 1 of length n, except
\* that n = 1 leaves a rank-0 tensor (every dimension of size 1 is removed)
Squeeze(positions) ==
    IF Len(positions) = 1 THEN [dim |-> 0, data |-> positions[1]]
    ELSE [dim |-> 1, data |-> positions]

\* a filter that drops nothing
KeepAll(labels) == Squeeze(Nonzero([k \in 1..Len(labels.data) |-> TRUE], 1))

\* line 158: indices_to_keep = (segments_labels != -1).nonzero().squeeze()
IndicesToKeep(labels) ==
    Squeeze(Nonzero([k \in 1..Len(labels.data) |-> labels.data[k] # -1], 1))

\* t[index]: a rank-0 index selects one element and drops the axis, a rank-1
\* index selects the listed elements
Index(t, index) ==
    IF index.dim = 0 THEN [dim |-> t.dim - 1, data |-> t.data[index.data]]
    ELSE [dim |-> t.dim,
          data |-> [k \in 1..Len(index.data) |-> t.data[index.data[k]]]]

\* lines 140-176 for one image: the list of entries it adds to result
ConvImage(image_detection) ==
    LET kept   == CollectSegments(image_detection, 1)
        labels == SubOne(Tensor1([k \in 1..Len(kept) |-> kept[k].class]))
        boxes  == Tensor1([k \in 1..Len(kept) |-> kept[k].box])
        scores == Tensor1([k \in 1..Len(kept) |-> kept[k].score])
        keep   == IndicesToKeep(labels)
        segments_labels == Index(labels, keep)
        segments_boxes  == Index(boxes, keep)
        segments_scores == Index(scores, keep)
    IN  IF segments_labels.dim > 0 /\ Len(segments_labels.data) > 0
        THEN << [boxes  |-> segments_boxes,
                 labels |-> segments_labels,
                 scores |-> segments_scores] >>
        ELSE <<>>

RECURSIVE ConvImages(_, _)
ConvImages(detections, i) ==
    IF i > Len(detections) THEN <<>>
    ELSE ConvImage(detections[i]) \o ConvImages(detections, i + 1)

\* conv_predictions: an output map without detections is returned as it is,
\* otherwise the list of per-image entries is returned in its place
conv_predictions(output_map) ==
    IF "detections" \notin DOMAIN output_map
    THEN [kind |-> "dict", map |-> output_map]
    ELSE [kind |-> "list", items |-> ConvImages(output_map.detections, 1)]

----------------------------------------------------------------------------
(* Inputs of the output formatter: arbitrary detection tensors.            *)

\* row j of image i is below the threshold, or is a background row (class
\* 0), or an object row of class j; its box is <<i, j>>, and the scores at or
\* above the threshold are in no particular order
RowKinds == {"low", "background", "object"}

DetectionTensor(kinds) ==
    [i \in DOMAIN kinds |->
        [j \in DOMAIN kinds[i] |->
            [box   |-> <<i, j>>,
             score |-> IF kinds[i][j] = "low" THEN 0 ELSE SCORE_THRESHOLD + (j % 2),
             class |-> IF kinds[i][j] = "background" THEN 0 ELSE j]]]

----------------------------------------------------------------------------
(* The top-k selector: _post_process.  Flat, location and class indices    *)
(* are counted from 0 as in the code; sequences are indexed from 1.        *)

\* permute(0, 2, 3, 1).reshape([batch_size, -1, width]) of one image of one
\* level: the channel vectors of the cells, cut into rows of `width`
LevelReshape(cells, width) ==
    [a \in 1..(Len(cells) \div width) |->
        SubSeq(cells, (a - 1) * width + 1, a * width)]

\* torch.cat([...], 1) over the levels, for image b
RECURSIVE CatLevels(_, _, _, _, _)
CatLevels(outputs, num_levels, b, width, level) ==
    IF level > num_levels THEN <<>>
    ELSE LevelReshape(outputs[level][b], width)
         \o CatLevels(outputs, num_levels, b, width, level + 1)

\* cls_outputs_all.reshape(batch_size, -1) for one image: flat index
\* f = location * num_classes + class
Flatten(locations, num_classes) ==
    [f \in 0..(Len(locations) * num_classes - 1) |->
        locations[(f \div num_classes) + 1][(f % num_classes) + 1]]

MaxOf(S) == CHOOSE m \in S : \A x \in S : x <= m

Reverse(s) == [j \in 1..Len(s) |-> s[Len(s) + 1 - j]]

\* the orders in which k positions of vals can be taken, largest value
\* first; which of several equal values comes first is not defined
RECURSIVE TopKFrom(_, _, _)
TopKFrom(vals, remaining, k) ==
    IF k = 0 \/ remaining = {} THEN {<<>>}
    ELSE LET mx   == MaxOf({vals[f] : f \in remaining})
             best == {f \in remaining : vals[f] = mx}
         IN  UNION {{<<f>> \o s : s \in TopKFrom(vals, remaining \ {f}, k - 1)} :
                      f \in best}

\* a top-k that takes what there is when fewer than k values exist
torch_topk_clipped(vals, k) == {Ok(s) : s \in TopKFrom(vals, DOMAIN vals, k)}

\* a top-k that hands its k values back smallest first
torch_topk_ascending(vals, k) ==
    IF k > Cardinality(DOMAIN vals) THEN {Raise("RuntimeError")}
    ELSE {Ok(Reverse(s)) : s \in TopKFrom(vals, DOMAIN vals, k)}

\* torch.topk(vals, k) (sorted=True, largest=True): the indices of the k
\* largest values in descending order of value; fails when k exceeds the size
torch_topk(vals, k) ==
    IF k > Cardinality(DOMAIN vals) THEN {Raise("RuntimeError")}
    ELSE {Ok(s) : s \in TopKFrom(vals, DOMAIN vals, k)}

\* line 38: indices_all = cls_topk_indices_all // config.num_classes
IndicesAll(f, num_classes) == f \div num_classes

\* line 39: classes_all = cls_topk_indices_all % config.num_classes
ClassesAll(f, num_classes) == f % num_classes

\* lines 41-45: torch.gather along the location axis, the index expanded
\* over the last axis: row j is the row of location indices[j]
GatherLocations(all, indices) == [j \in 1..Len(indices) |-> all[indices[j] + 1]]

\* a second gather that takes the first class of every row
GatherFirstClass(rows, classes) == [j \in 1..Len(classes) |-> rows[j][1]]

\* lines 46-47: torch.gather along the class axis: of row j, class classes[j]
GatherClasses(rows, classes) == [j \in 1..Len(classes) |-> rows[j][classes[j] + 1]]

\* lines 28-49 for image b once top-k has chosen the flat indices topk
PostProcessImage(config, cls_outputs, box_outputs, b, topk) ==
    LET cls_outputs_all == CatLevels(cls_outputs, config.num_levels, b,
                                     config.num_classes, 1)
        box_outputs_all == CatLevels(box_outputs, config.num_levels, b, 4, 1)
        indices_all == [j \in 1..Len(topk) |-> IndicesAll(topk[j], config.num_classes)]
        classes_all == [j \in 1..Len(topk) |-> ClassesAll(topk[j], config.num_classes)]
        box_after   == GatherLocations(box_outputs_all, indices_all)
        cls_rows    == GatherLocations(cls_outputs_all, indices_all)
        cls_after   == GatherClasses(cls_rows, classes_all)
    IN  [class_out |-> cls_after, box_out |-> box_after,
         indices |-> indices_all, classes |-> classes_all, topk |-> topk]

\* what top-k can return for image b
TopKImage(config, cls_outputs, b) ==
    torch_topk(Flatten(CatLevels(cls_outputs, config.num_levels, b,
                                 config.num_classes, 1), config.num_classes),
               MAX_DETECTION_POINTS)

\* the results for images b, b + 1, ... of the batch, one list per way
\* top-k can order the equal logits of each image
RECURSIVE PostProcessFrom(_, _, _, _)
PostProcessFrom(config, cls_outputs, box_outputs, b) ==
    IF b > Len(cls_outputs[1]) THEN {<<>>}
    ELSE {<<PostProcessImage(config, cls_outputs, box_outputs, b, r.value)>> \o rest :
            r \in TopKImage(config, cls_outputs, b),
            rest \in PostProcessFrom(config, cls_outputs, box_outputs, b + 1)}

\* _post_process: every result it can produce for the batch, or the failure
\* of top-k
_post_process(config, cls_outputs, box_outputs) ==
    IF \E b \in 1..Len(cls_outputs[1]) :
          \E r \in TopKImage(config, cls_outputs, b) : r.status # "ok"
    THEN {Raise("RuntimeError")}
    ELSE {Ok(pp) : pp \in PostProcessFrom(config, cls_outputs, box_outputs, 1)}

----------------------------------------------------------------------------
(* The detection decoder: _batch_detection over generate_detections.       *)

\* Anchors(...).boxes: one anchor box per location, over all levels
AnchorBoxes(config) == [l \in 1..config.num_levels |-> [anchor |-> l - 1]]

\* anchors.generate_detections for one image: row j pairs the box decoded
\* from regression j against the anchor of location indices[j] with score j
\* and class j, the class counted from 1 (0 is the background)
generate_detections(class_out, box_out, anchor_boxes, indices, classes, img_scale, img_size) ==
    [j \in 1..Len(indices) |->
        [box   |-> [reg |-> box_out[j], anchor |-> anchor_boxes[indices[j] + 1],
                    scale |-> img_scale, size |-> img_size],
         score |-> class_out[j],
         class |-> classes[j] + 1]]

\* _batch_detection: generate_detections per image, stacked
_batch_detection(batch_size, pp, anchor_boxes, img_scale, img_size) ==
    [i \in 1..batch_size |->
        generate_detections(pp[i].class_out, pp[i].box_out, anchor_boxes,
                            pp[i].indices, pp[i].classes, img_scale[i], img_size[i])]

----------------------------------------------------------------------------
(* Inputs of the selector: what the network returns.                       *)

LevelCounts == {1, 2, 3}

ClassCounts == {1, 2}

LogitVals == {0, 1}

Configs == [num_levels : LevelCounts, num_classes : ClassCounts]

\* the box regression of the one cell of `level` for image b
BoxOutputs(config, B) ==
    [level \in 1..config.num_levels |->
        [b \in 1..B |-> <<10 * b + level, 10 * b + level, b, level>>]]

\* logits that are pairwise distinct within an image and differ from image
\* to image: (location, class) pair number f of image b has logit f + b
RampLogits(config, b) ==
    [level \in 1..config.num_levels |->
        [c \in 1..config.num_classes |-> (level - 1) * config.num_classes + c - 1 + b]]

\* the classification outputs tried: per level and image, num_classes logits
\* (one cell with one anchor per level).  One image of the batch has every
\* combination of logits below and at the threshold, equal ones included;
\* the other images have the ramp.
ClsOutputs(config, B) ==
    {[level \in 1..config.num_levels |->
        [b \in 1..B |-> IF b = free THEN grid[level] ELSE RampLogits(config, b)[level]]] :
       free \in 1..B,
       grid \in [1..config.num_levels -> [1..config.num_classes -> LogitVals]]}

----------------------------------------------------------------------------
(* The training benches.  The network, the anchor labeler and the loss are *)
(* external: what they return is an argument of the call.                  *)

\* lines 253 and 264, with .all() in place of .any()
ScaleAssertionAll(scales) == ~(\A i \in DOMAIN scales : scales[i] # SCALE_ONE)

\* lines 253 and 264: assert (scales != 1.0).any() == False
ScaleAssertion(scales) == ~(\E i \in DOMAIN scales : scales[i] # SCALE_ONE)

\* DetBenchTrainOrig.forward(x, targets): every result it can produce
DetBenchTrainOrigForward(config, is_training, x, targets, net, losses) ==
    IF ~targets.none
    THEN LET target == my_fast_collate(targets.value)
             xs     == my_fast_collate_images(x)
             output == [loss_box |-> losses.loss]
         IN  IF target.status # "ok" THEN {target}
             ELSE IF is_training THEN {Ok(conv_predictions(output))}
             ELSE {IF pp.status # "ok" THEN pp
                   ELSE Ok(conv_predictions(
                          output @@ [detections |->
                             _batch_detection(Len(xs), pp.value, AnchorBoxes(config),
                                              target.value.img_scale,
                                              target.value.img_size)])) :
                      pp \in _post_process(config, net.class_out, net.box_out)}
    ELSE LET xs == my_fast_collate_images(x)
         IN  {IF pp.status # "ok" THEN pp
              ELSE Ok(conv_predictions(
                     [detections |->
                        _batch_detection(Len(xs), pp.value, AnchorBoxes(config),
                                         [i \in 1..Len(xs) |-> SCALE_ONE],
                                         [i \in 1..Len(xs) |->
                                            <<DEFAULT_SIZE, DEFAULT_SIZE>>])])) :
                 pp \in _post_process(config, net.class_out, net.box_out)}

\* DetBenchTrain.forward(images, features, targets): every result it can
\* produce; images carries the batch and images.get_images_scales()
DetBenchTrainForward(config, images, targets, net, losses) ==
    IF ~targets.none
    THEN LET target == my_fast_collate(targets.value)
             output == [loss |-> losses.loss, class_loss |-> losses.class_loss,
                        box_loss |-> losses.box_loss]
         IN  IF target.status # "ok" THEN {target}
             ELSE IF ~ScaleAssertion(target.value.img_scale)
             THEN {Raise("AssertionError")}
             ELSE {IF pp.status # "ok" THEN pp
                   ELSE Ok([kind |-> "dict",
                            map |-> output @@ [detections |->
                               _batch_detection(Len(images.tensors), pp.value,
                                                AnchorBoxes(config),
                                                target.value.img_scale,
                                                target.value.img_size)]]) :
                      pp \in _post_process(config, net.class_out, net.box_out)}
    ELSE {IF pp.status # "ok" THEN pp
          ELSE IF ~ScaleAssertion(images.scales) THEN Raise("AssertionError")
          ELSE Ok([kind |-> "dict",
                   map |-> [detections |->
                      _batch_detection(Len(images.tensors), pp.value,
                                       AnchorBoxes(config), images.scales,
                                       [i \in 1..Len(images.tensors) |->
                                          <<DEFAULT_SIZE, DEFAULT_SIZE>>])]]) :
             pp \in _post_process(config, net.class_out, net.box_out)}

----------------------------------------------------------------------------
(* Inputs of the training benches.                                         *)

FwdConfig == [num_levels |-> 2, num_classes |-> 2]

\* what the network returns for one image, per level: all logits distinct,
\* or a single logit at the threshold
NetSamples == { << <<3, 2>>, <<1, 0>> >>, << <<0, 0>>, <<1, 0>> >> }

NetOutput(samples) ==
    [class_out |-> [level \in 1..FwdConfig.num_levels |->
                       [i \in DOMAIN samples |-> samples[i][level]]],
     box_out   |-> BoxOutputs(FwdConfig, Len(samples))]

\* what the loss function returns
LossSamples == {[loss |-> 3, class_loss |-> 1, box_loss |-> 2],
                [loss |-> 7, class_loss |-> 4, box_loss |-> 3]}

FwdCounts == {1, MAX_NUM_INSTANCES + 1}

----------------------------------------------------------------------------
(* The model unwrapper: unwrap_bench.                                      *)

RawIds == {1, 2}

Raw(id) == [class |-> "EfficientDet", id |-> id]

WrapperKinds == {"ema", "replica", "bench"}

\* timm's ModelEma holds .ema, a replica wrapper .module, a bench .model
Wrap(kind, inner) ==
    IF kind = "ema" THEN [class |-> "ModelEma", ema |-> inner]
    ELSE IF kind = "replica" THEN [class |-> "DataParallel", module |-> inner]
    ELSE [class |-> "DetBench", model |-> inner]

\* the object wrapped by wrappers[1], which wraps wrappers[2], ...
RECURSIVE Nest(_, _)
Nest(wrappers, inner) ==
    IF wrappers = <<>> THEN inner
    ELSE Wrap(Head(wrappers), Nest(Tail(wrappers), inner))

\* an unwrap that strips the outermost wrapper only
unwrap_once(model) ==
    IF model.class = "ModelEma" THEN model.ema
    ELSE IF "module" \in DOMAIN model THEN model.module
    ELSE IF "model" \in DOMAIN model THEN model.model
    ELSE model

RECURSIVE unwrap_bench(_)
unwrap_bench(model) ==
    IF model.class = "ModelEma" THEN unwrap_bench(model.ema)
    ELSE IF "module" \in DOMAIN model THEN unwrap_bench(model.module)
    ELSE IF "model" \in DOMAIN model THEN unwrap_bench(model.model)
    ELSE model

----------------------------------------------------------------------------

Init ==
    /\ training = TRUE
    /\ pc = "idle"
    /\ args = None
    /\ ret = None

\* nn.Module.train() / nn.Module.eval()
SetTraining ==
    /\ pc = "idle"
    /\ \E mode \in BOOLEAN : training' = mode
    /\ UNCHANGED <<pc, args, ret>>

Collate ==
    /\ pc = "idle"
    /\ \E b \in 1..MaxBatch :
         \E ns \in [1..b -> InstCounts], ss \in [1..b -> ScaleVals] :
            /\ args' = [targets |-> Targets(ns, ss)]
            /\ ret' = my_fast_collate(Targets(ns, ss))
    /\ pc' = "my_fast_collate"
    /\ UNCHANGED training

ConvPredictions ==
    /\ pc = "idle"
    /\ \E b \in 1..MaxBatch :
         \E kinds \in [1..b -> [1..MaxRows -> RowKinds]] :
            /\ args' = [output_map |-> [detections |-> DetectionTensor(kinds)]]
            /\ ret' = Ok(conv_predictions([detections |-> DetectionTensor(kinds)]))
    /\ pc' = "conv_predictions"
    /\ UNCHANGED training

PostProcess ==
    /\ pc = "idle"
    /\ \E config \in Configs, b \in 1..MaxBatch :
         \E cls_outputs \in ClsOutputs(config, b) :
            /\ args' = [config |-> config, cls_outputs |-> cls_outputs,
                         box_outputs |-> BoxOutputs(config, b)]
            /\ ret' \in _post_process(config, cls_outputs, BoxOutputs(config, b))
    /\ pc' = "_post_process"
    /\ UNCHANGED training

\* DetBenchPredict.forward: the network, the selector, the decoder
DetBenchPredictForward(config, x, cls_outputs, box_outputs, img_scales, img_size) ==
    {IF pp.status # "ok" THEN pp
     ELSE Ok(_batch_detection(Len(x), pp.value, AnchorBoxes(config), img_scales, img_size)) :
        pp \in _post_process(config, cls_outputs, box_outputs)}

Predict ==
    /\ pc = "idle"
    /\ \E config \in Configs, b \in 1..MaxBatch :
         \E cls_outputs \in ClsOutputs(config, b) :
            LET x == [i \in 1..b |-> i]
                img_scales == [i \in 1..b |-> SCALE_ONE]
                img_size == [i \in 1..b |-> <<DEFAULT_SIZE, DEFAULT_SIZE>>]
            IN  /\ args' = [config |-> config, x |-> x, cls_outputs |-> cls_outputs,
                             img_scales |-> img_scales, img_size |-> img_size]
                /\ ret' \in DetBenchPredictForward(config, x, cls_outputs,
                                 BoxOutputs(config, b), img_scales, img_size)
    /\ pc' = "DetBenchPredict.forward"
    /\ UNCHANGED training

TrainOrigForward ==
    /\ pc = "idle"
    /\ \E b \in 1..MaxBatch :
         \E samples \in [1..b -> NetSamples], losses \in LossSamples,
            with_targets \in BOOLEAN :
            \E ns \in [1..b -> IF with_targets THEN FwdCounts ELSE {0}],
               ss \in [1..b -> IF with_targets THEN ScaleVals ELSE {SCALE_ONE}] :
               LET x == [i \in 1..b |-> i]
                   targets == IF with_targets THEN Some(Targets(ns, ss)) ELSE None
               IN  /\ args' = [x |-> x, targets |-> targets,
                                net |-> NetOutput(samples), losses |-> losses]
                   /\ ret' \in DetBenchTrainOrigForward(FwdConfig, training, x, targets,
                                    NetOutput(samples), losses)
    /\ pc' = "DetBenchTrainOrig.forward"
    /\ UNCHANGED training

TrainForward ==
    /\ pc = "idle"
    /\ \E b \in 1..MaxBatch :
         \E samples \in [1..b -> NetSamples], losses \in LossSamples,
            with_targets \in BOOLEAN :
            \E ns \in [1..b -> IF with_targets THEN FwdCounts ELSE {0}],
               ss \in [1..b -> ScaleVals] :
               LET images == [tensors |-> [i \in 1..b |-> i],
                              scales |-> IF with_targets
                                         THEN [i \in 1..b |-> SCALE_ONE] ELSE ss]
                   targets == IF with_targets THEN Some(Targets(ns, ss)) ELSE None
               IN  /\ args' = [images |-> images, targets |-> targets,
                                net |-> NetOutput(samples), losses |-> losses]
                   /\ ret' \in DetBenchTrainForward(FwdConfig, images, targets,
                                    NetOutput(samples), losses)
    /\ pc' = "DetBenchTrain.forward"
    /\ UNCHANGED training

UnwrapBench ==
    /\ pc = "idle"
    /\ \E d \in 0..MaxDepth :
         \E wrappers \in [1..d -> WrapperKinds], id \in RawIds :
            /\ args' = [model |-> Nest(wrappers, Raw(id)),
                         wrappers |-> wrappers, innermost |-> Raw(id)]
            /\ ret' = Ok(unwrap_bench(Nest(wrappers, Raw(id))))
    /\ pc' = "unwrap_bench"
    /\ UNCHANGED training

\* the caller takes the result
Return ==
    /\ pc # "idle"
    /\ pc' = "idle"
    /\ args' = None
    /\ ret' = None
    /\ UNCHANGED training

Next ==
    \/ SetTraining
    \/ Collate
    \/ ConvPredictions
    \/ PostProcess
    \/ Predict
    \/ TrainOrigForward
    \/ TrainForward
    \/ UnwrapBench
    \/ Return

Spec == Init /\ [][Next]_vars

\* The functions are independent of one another, so each component is also
\* checked by itself: the calls of the component, and the caller's Return.
NextCollate == Collate \/ Return

SpecCollate == Init /\ [][NextCollate]_vars

NextConv == ConvPredictions \/ Return

SpecConv == Init /\ [][NextConv]_vars

NextSelector == PostProcess \/ Predict \/ Return

SpecSelector == Init /\ [][NextSelector]_vars

NextBench == SetTraining \/ TrainOrigForward \/ TrainForward \/ Return

SpecBench == Init /\ [][NextBench]_vars

NextUnwrap == UnwrapBench \/ Return

SpecUnwrap == Init /\ [][NextUnwrap]_vars

----------------------------------------------------------------------------
(* The output formatter's properties.                                      *)

\* the rows of one image that survive: placed before the image's first row
\* below the threshold, with a class other than the background's
SurvivorRows(image_detection) ==
    {j \in 1..Len(image_detection) :
        /\ \A k \in 1..j : image_detection[k].score >= SCORE_THRESHOLD
        /\ image_detection[j].class - 1 # -1}

ImagesWithSurvivors(detections, atLeast) ==
    {i \in 1..Len(detections) : Cardinality(SurvivorRows(detections[i])) >= atLeast}

ConvReturned == pc = "conv_predictions" /\ ret.status = "ok"

\* C1: conv_predictions returns one entry for every image that has at least
\* one surviving detection and none for the others: the result is as long as
\* the number of images with a survivor, images with exactly one included.
C1_OneEntryPerSurvivingImage ==
    ConvReturned =>
        Len(ret.value.items)
            = Cardinality(ImagesWithSurvivors(args.output_map.detections, 1))

\* C2: every detection conv_predictions emits has a score of at least 0.1 and
\* a label other than -1, and boxes, labels and scores of an entry are
\* aligned: position k of the three comes from one row of the input, whose
\* class is the label plus 1.
C2_EmittedAreKeptRows ==
    ConvReturned =>
        \A e \in 1..Len(ret.value.items) :
            LET entry == ret.value.items[e]
            IN  /\ entry.labels.dim = 1
                /\ Len(entry.boxes.data) = Len(entry.labels.data)
                /\ Len(entry.scores.data) = Len(entry.labels.data)
                /\ \A k \in 1..Len(entry.labels.data) :
                      /\ entry.scores.data[k] >= SCORE_THRESHOLD
                      /\ entry.labels.data[k] # -1
                      /\ \E i \in 1..Len(args.output_map.detections) :
                            \E j \in 1..Len(args.output_map.detections[i]) :
                               LET row == args.output_map.detections[i][j]
                               IN  /\ row.box = entry.boxes.data[k]
                                   /\ row.score = entry.scores.data[k]
                                   /\ row.class = entry.labels.data[k] + 1
                                   /\ row.class # 0

\* an entry was emitted for an image of which a background row and a row
\* below the threshold were dropped
C2_Witness ==
    /\ ConvReturned
    /\ Len(ret.value.items) >= 1
    /\ \E i \in 1..Len(args.output_map.detections) :
          LET image == args.output_map.detections[i]
          IN  /\ Cardinality(SurvivorRows(image)) >= 2
              /\ \E j \in 1..Len(image) : image[j].class = 0
                                          /\ j < MaxOf(SurvivorRows(image))

----------------------------------------------------------------------------
(* The benches' properties.                                                *)

TrainReturned ==
    /\ pc \in {"DetBenchTrainOrig.forward", "DetBenchTrain.forward"}
    /\ ~args.targets.none
    /\ ret.status = "ok"

\* C3: a training bench's forward call with targets returns an output that
\* contains the scalar loss, in training mode and in eval mode alike.
C3_LossReturned ==
    TrainReturned =>
        /\ ret.value.kind = "dict"
        /\ \E key \in DOMAIN ret.value.map \ {"detections"} :
              ret.value.map[key] = args.losses.loss

\* the scale factors DetBenchTrain.forward is given: the targets' img_scale,
\* or without targets what images.get_images_scales() returns
GivenScales ==
    IF args.targets.none THEN args.images.scales
    ELSE [i \in 1..Len(args.targets.value) |-> args.targets.value[i].img_scale.x]

CollateFails ==
    /\ ~args.targets.none
    /\ \E i \in 1..Len(args.targets.value) :
          Len(args.targets.value[i].boxes) > MAX_NUM_INSTANCES

\* C4: DetBenchTrain.forward fails and returns no detections whenever some
\* image of the batch has a scale factor other than 1.0, with targets and
\* without; the failure is the assertion unless collation has failed before
\* it; detections are returned only when every scale is exactly 1.0.
C4_ScaleAsserted ==
    pc = "DetBenchTrain.forward" =>
        /\ (\E i \in DOMAIN GivenScales : GivenScales[i] # SCALE_ONE) =>
              /\ ret.status # "ok"
              /\ "value" \notin DOMAIN ret
              /\ ~CollateFails => ret.status = "AssertionError"
        /\ ret.status = "ok" =>
              /\ \A i \in DOMAIN GivenScales : GivenScales[i] = SCALE_ONE
              /\ "detections" \in DOMAIN ret.value.map

\* the assertion stopped a batch whose first image has scale 1.0, on the
\* path with targets
C4_Witness ==
    /\ pc = "DetBenchTrain.forward"
    /\ ~args.targets.none
    /\ Len(GivenScales) >= 2
    /\ GivenScales[1] = SCALE_ONE
    /\ \E i \in DOMAIN GivenScales : GivenScales[i] # SCALE_ONE
    /\ ret.status = "AssertionError"

----------------------------------------------------------------------------
(* The selector's properties.                                              *)

PostProcessCalled == pc = "_post_process"

\* the (location, class) pairs of one image: one location per level
TotalLogits == args.config.num_levels * args.config.num_classes

HasLengthK(pp) ==
    /\ Len(pp.indices) = MAX_DETECTION_POINTS
    /\ Len(pp.classes) = MAX_DETECTION_POINTS
    /\ Len(pp.class_out) = MAX_DETECTION_POINTS
    /\ Len(pp.box_out) = MAX_DETECTION_POINTS

\* C5 as stated: _post_process returns exactly K location indices, classes,
\* scores and box regressions per image whatever the number of locations,
\* and fails in no case.
C5_AlwaysLengthK ==
    PostProcessCalled =>
        /\ ret.status = "ok"
        /\ \A b \in 1..Len(ret.value) : HasLengthK(ret.value[b])

\* C5 as amended: with at least K (location, class) pairs per image,
\* _post_process returns exactly K of each per image (it truncates); with
\* fewer than K it fails in top-k and returns nothing (it does not pad).
C5_LengthKOrFailure ==
    PostProcessCalled =>
        IF TotalLogits >= MAX_DETECTION_POINTS
        THEN /\ ret.status = "ok"
             /\ Len(ret.value) = Len(args.cls_outputs[1])
             /\ \A b \in 1..Len(ret.value) : HasLengthK(ret.value[b])
        ELSE /\ ret.status = "RuntimeError"
             /\ "value" \notin DOMAIN ret

\* _post_process truncated: more pairs than K, K returned
C5_Witness ==
    /\ PostProcessCalled
    /\ TotalLogits > MAX_DETECTION_POINTS
    /\ ret.status = "ok"
    /\ HasLengthK(ret.value[1])

NonIncreasing(scores) ==
    \A j \in 1..(Len(scores) - 1) : scores[j] >= scores[j + 1]

\* no row at or above the threshold comes after a row below it
NothingSkipped(image_detection) ==
    \A j \in 1..Len(image_detection) :
        image_detection[j].score >= SCORE_THRESHOLD =>
            \A k \in 1..j : image_detection[k].score >= SCORE_THRESHOLD

\* C6: within each image the K scores _post_process returns are ordered from
\* largest to smallest, the rows of the detection tensor keep that order, and
\* so no row with a score of at least 0.1 follows a row below 0.1.
C6_ScoresNonIncreasing ==
    /\ (PostProcessCalled /\ ret.status = "ok") =>
          \A b \in 1..Len(ret.value) : NonIncreasing(ret.value[b].class_out)
    /\ (pc = "DetBenchPredict.forward" /\ ret.status = "ok") =>
          \A i \in 1..Len(ret.value) :
             /\ NonIncreasing([j \in 1..Len(ret.value[i]) |-> ret.value[i][j].score])
             /\ NothingSkipped(ret.value[i])

\* a detection tensor whose second image starts at or above the threshold
\* and ends below it
C6_Witness ==
    /\ pc = "DetBenchPredict.forward"
    /\ ret.status = "ok"
    /\ Len(ret.value) >= 2
    /\ ret.value[2][1].score >= SCORE_THRESHOLD
    /\ ret.value[2][Len(ret.value[2])].score < SCORE_THRESHOLD

\* the logit of (location, class) of image b, and the box regression of the
\* location, read from the arguments: location l is the cell of level l + 1
LogitAt(b, location, class) == args.cls_outputs[location + 1][b][class + 1]

BoxAt(b, location) == args.box_outputs[location + 1][b]

Pairs == (0..(args.config.num_levels - 1)) \X (0..(args.config.num_classes - 1))

\* C10: with f_j the j-th flat index top-k chose, output j of _post_process
\* has location f_j div num_classes and class f_j mod num_classes, its score
\* is the logit of exactly that pair and its box regression that of the
\* location; the K pairs are pairwise distinct and no pair left out has a
\* logit greater than a chosen one.
C10_GatheredAtChosenPairs ==
    (PostProcessCalled /\ ret.status = "ok") =>
        \A b \in 1..Len(ret.value) :
            LET pp == ret.value[b]
                C  == args.config.num_classes
                chosen == {<<pp.indices[j], pp.classes[j]>> : j \in 1..Len(pp.topk)}
            IN  /\ \A j \in 1..Len(pp.topk) :
                      /\ pp.indices[j] = pp.topk[j] \div C
                      /\ pp.classes[j] = pp.topk[j] % C
                      /\ <<pp.indices[j], pp.classes[j]>> \in Pairs
                      /\ pp.class_out[j] = LogitAt(b, pp.indices[j], pp.classes[j])
                      /\ pp.box_out[j] = BoxAt(b, pp.indices[j])
                /\ Cardinality(chosen) = Len(pp.topk)
                /\ \A p \in Pairs \ chosen : \A q \in chosen :
                      LogitAt(b, p[1], p[2]) <= LogitAt(b, q[1], q[2])

\* the second image's first output is class 1 of location 1, chosen over a
\* smaller logit
C10_Witness ==
    /\ PostProcessCalled
    /\ ret.status = "ok"
    /\ Len(ret.value) >= 2
    /\ ret.value[2].indices[1] = 1
    /\ ret.value[2].classes[1] = 1
    /\ \E p \in Pairs : LogitAt(2, p[1], p[2]) < ret.value[2].class_out[1]

----------------------------------------------------------------------------
(* The collation's properties.                                             *)

CollateCalled == pc = "my_fast_collate"

InstancesOf(i) == Len(args.targets[i].labels)

\* C7: my_fast_collate pads each image by itself: rows 1..n of the batched
\* boxes and labels of image i are its n instances in order and the rows up
\* to 75 are zero, so every value in its row is zero or one of its own.
C7_PaddedPerImage ==
    (CollateCalled /\ ret.status = "ok") =>
        \A i \in 1..Len(args.targets) :
            /\ Len(ret.value.labels[i]) = MAX_NUM_INSTANCES
            /\ Len(ret.value.boxes[i]) = MAX_NUM_INSTANCES
            /\ \A r \in 1..MAX_NUM_INSTANCES :
                  IF r <= InstancesOf(i)
                  THEN /\ ret.value.labels[i][r] = args.targets[i].labels[r]
                       /\ ret.value.boxes[i][r] = args.targets[i].boxes[r]
                  ELSE /\ ret.value.labels[i][r] = 0
                       /\ ret.value.boxes[i][r] = <<0, 0, 0, 0>>
            /\ \A r \in 1..MAX_NUM_INSTANCES :
                  \/ ret.value.labels[i][r] = 0
                  \/ \E q \in 1..InstancesOf(i) :
                        ret.value.labels[i][r] = args.targets[i].labels[q]

\* a batch of an image with 75 instances and an image with none
C7_Witness ==
    /\ CollateCalled
    /\ ret.status = "ok"
    /\ Len(args.targets) >= 2
    /\ InstancesOf(1) = MAX_NUM_INSTANCES
    /\ InstancesOf(2) = 0
    /\ ret.value.labels[1][MAX_NUM_INSTANCES] # 0
    /\ ret.value.labels[2][1] = 0

Oversized == \E i \in 1..Len(args.targets) : InstancesOf(i) > MAX_NUM_INSTANCES

\* C8 as stated: given a target with more than 75 instances my_fast_collate
\* does not fail and returns a batched target.
C8_OversizedReturnsSilently ==
    (CollateCalled /\ Oversized) =>
        /\ ret.status = "ok"
        /\ "value" \in DOMAIN ret

\* C8 as amended: my_fast_collate checks no bound itself, but given a target
\* with more than 75 instances the slice assignment fails, so it raises and
\* returns no batched target; with at most 75 instances everywhere it returns.
C8_OversizedRaises ==
    CollateCalled =>
        IF Oversized
        THEN ret.status = "RuntimeError" /\ "value" \notin DOMAIN ret
        ELSE ret.status = "ok"

\* the second image of a batch has 76 instances and the call has failed
C8_Witness ==
    /\ CollateCalled
    /\ Len(args.targets) >= 2
    /\ InstancesOf(1) <= MAX_NUM_INSTANCES
    /\ InstancesOf(2) = MAX_NUM_INSTANCES + 1
    /\ ret.status = "RuntimeError"

----------------------------------------------------------------------------
(* The unwrapper's properties.                                             *)

IsWrapper(model) ==
    \/ model.class = "ModelEma"
    \/ "module" \in DOMAIN model
    \/ "model" \in DOMAIN model

\* C9: unwrap_bench returns the innermost object of every nesting of EMA,
\* replica and bench wrappers; an object that is no wrapper is returned
\* unchanged, and unwrapping the result again returns the same object.
C9_UnwrapsToInnermost ==
    pc = "unwrap_bench" =>
        /\ ret.status = "ok"
        /\ ret.value = args.innermost
        /\ ~IsWrapper(ret.value)
        /\ ~IsWrapper(args.model) => ret.value = args.model
        /\ unwrap_bench(ret.value) = ret.value

\* EMA -> replica -> bench -> model has been unwrapped to the model
C9_Witness ==
    /\ pc = "unwrap_bench"
    /\ args.wrappers = <<"ema", "replica", "bench">>
    /\ ret.status = "ok"
    /\ ret.value = args.innermost

=============================================================================
